---- MODULE Spec2Model ----
(***************************************************************************)
(* State-machine model of the SpeedReader application (src/src/App.jsx):   *)
(* the React component's state, its event handlers, its timers, its        *)
(* asynchronous loads and dictionary requests, and its effects.            *)
(*                                                                         *)
(* Conventions.  A JavaScript string that the program inspects character   *)
(* by character (chapter text, tokens) is a sequence of one-character      *)
(* strings.  A file name is the sequence of its dot-separated parts and    *)
(* the empty name '' is the empty sequence.  Array index i of the source   *)
(* is position i+1 of the TLA+ sequence.  Every action is one event of the *)
(* browser's single-threaded event loop: the handler or callback, the      *)
(* re-render it causes and the effects that run after that render.         *)
(***************************************************************************)
EXTENDS Integers, Sequences, FiniteSets, TLC

\* null where the source holds an array index (selectedChapterIdx,
\* selectedWordIdx).
NoIndex == -1

\* null where the source holds a timer id (intervalId); timer ids are positive.
NoTimer == 0

\* null where the source holds a word (selectedWord).
NoWord == <<"null">>

\* The empty file name '' (falsy in the source).
EmptyName == <<>>

----------------------------------------------------------------------------
(* Bounds of the model. *)

\* Files selected in a behaviour of Spec.
MaxImports == 1
\* Dictionary lookups issued in a behaviour of SpecDictionary.
MaxLookups == 2
\* Characters of the text of a section in a behaviour of SpecTexts.
MaxLen == 4

----------------------------------------------------------------------------
(* Characters and strings. *)

SP == " "
NL == "\n"
TAB == "\t"

\* The characters matched by \s in the regular expressions of the source.
IsSpace(c) == c \in {SP, NL, TAB}

\* [.!?] of the punctuation rule.
IsPunct(c) == c \in {".", "!", "?"}

\* String.prototype.trim: drop leading and trailing whitespace.
RECURSIVE TrimLeft(_)
TrimLeft(s) ==
    IF s = <<>> THEN <<>>
    ELSE IF IsSpace(Head(s)) THEN TrimLeft(Tail(s)) ELSE s

RECURSIVE TrimRight(_)
TrimRight(s) ==
    IF s = <<>> THEN <<>>
    ELSE IF IsSpace(s[Len(s)]) THEN TrimRight(SubSeq(s, 1, Len(s) - 1)) ELSE s

Trim(s) == TrimRight(TrimLeft(s))

\* text.split(/\s+/): cut at every maximal run of whitespace.  A leading or
\* trailing run leaves an empty first or last element, and the empty string
\* splits into one empty element, as in JavaScript.
RECURSIVE SplitFrom(_, _, _)
SplitFrom(s, cur, acc) ==
    IF s = <<>> THEN Append(acc, cur)
    ELSE IF IsSpace(Head(s))
         THEN SplitFrom(TrimLeft(s), <<>>, Append(acc, cur))
         ELSE SplitFrom(Tail(s), Append(cur, Head(s)), acc)

Split(s) == SplitFrom(s, <<>>, <<>>)

\* text.replace(/\n{3,}/g, '\n\n'): a run of three or more line breaks
\* becomes two.
RECURSIVE CountNL(_)
CountNL(s) == IF s # <<>> /\ Head(s) = NL THEN 1 + CountNL(Tail(s)) ELSE 0

RECURSIVE CollapseBreaks(_)
CollapseBreaks(s) ==
    IF s = <<>> THEN <<>>
    ELSE LET n == CountNL(s) IN
         IF n >= 3 THEN <<NL, NL>> \o CollapseBreaks(SubSeq(s, n + 1, Len(s)))
         ELSE IF n >= 1 THEN SubSeq(s, 1, n) \o CollapseBreaks(SubSeq(s, n + 1, Len(s)))
         ELSE <<Head(s)>> \o CollapseBreaks(Tail(s))

\* text.replace(/[ \t]+/g, ' '): a run of spaces and tabs becomes one space.
RECURSIVE SkipBlanks(_)
SkipBlanks(s) ==
    IF s # <<>> /\ Head(s) \in {SP, TAB} THEN SkipBlanks(Tail(s)) ELSE s

RECURSIVE CollapseBlanks(_)
CollapseBlanks(s) ==
    IF s = <<>> THEN <<>>
    ELSE IF Head(s) \in {SP, TAB} THEN <<SP>> \o CollapseBlanks(SkipBlanks(s))
    ELSE <<Head(s)>> \o CollapseBlanks(Tail(s))

\* text.replace(/([.!?])([^ \n])/g, '$1 $2'): the matches are found left to
\* right without overlap, so the character consumed as $2 is not examined as
\* the start of another match.
RECURSIVE SpaceAfterPunct(_)
SpaceAfterPunct(s) ==
    IF Len(s) < 2 THEN s
    ELSE IF IsPunct(s[1]) /\ s[2] \notin {SP, NL}
         THEN <<s[1], SP, s[2]>> \o SpaceAfterPunct(SubSeq(s, 3, Len(s)))
         ELSE <<s[1]>> \o SpaceAfterPunct(Tail(s))

\* The whitespace normalisation that ends extractCleanTextFromHTML.
NormalizeWhitespace(text) ==
    Trim(SpaceAfterPunct(CollapseBlanks(CollapseBreaks(text))))

\* extractCleanTextFromHTML.  The parsed document is given by the text
\* contents of its p and li elements, in document order, and the text
\* content of its body.
RECURSIVE BlocksText(_)
BlocksText(blocks) ==
    IF blocks = <<>> THEN <<>>
    ELSE LET t == Head(blocks) IN
         (IF Trim(t) # <<>> THEN t \o <<NL, NL>> ELSE <<>>)
             \o BlocksText(Tail(blocks))

extractCleanTextFromHTML(html) ==
    LET text == BlocksText(html.blocks)
    IN  NormalizeWhitespace(IF Trim(text) = <<>> THEN html.body ELSE text)

----------------------------------------------------------------------------
(* The files a user can select.  An EPUB is given by what the epubjs        *)
(* decoder hands back for it: its spine sections in order, each with the    *)
(* outcome of item.load, of item.render and of item.text (the parsed        *)
(* document, or a rejection), and the label of the table-of-contents entry  *)
(* whose href ends with the section's href ("" when there is none).         *)

Html(blocks, body) == [blocks |-> blocks, body |-> body]

NoHtml == Html(<<>>, <<>>)

Section(loadOk, renderOk, rendered, textOk, text, label) ==
    [loadOk |-> loadOk, renderOk |-> renderOk, rendered |-> rendered,
     textOk |-> textOk, text |-> text, label |-> label]

\* A section whose render() resolves.
Rendered(html, label) == Section(TRUE, TRUE, html, TRUE, html, label)
\* A section whose render() rejects and whose text() resolves.
TextOnly(html, label) == Section(TRUE, FALSE, NoHtml, TRUE, html, label)
\* A section whose load() rejects.
Unloadable == Section(FALSE, FALSE, NoHtml, FALSE, NoHtml, "")
\* A section whose render() and text() both reject.
Unreadable == Section(TRUE, FALSE, NoHtml, FALSE, NoHtml, "")

File(name, text, pages, sections) ==
    [name |-> name, text |-> text, pages |-> pages, sections |-> sections]

\* Five spine sections; the chapters come from sections 0, 2 and 4.
BookA ==
    File(<<"a", "epub">>, <<>>, <<>>,
         << Rendered(Html(<< <<"a">>, <<"b", SP, SP, "c">> >>, <<>>), "One"),
            Unloadable,
            TextOnly(Html(<<>>, <<SP, "d", NL>>), ""),
            Unreadable,
            Rendered(Html(<< <<"a", ".", "d">> >>, <<>>), "") >>)

\* Two spine sections with text and one without.
BookB ==
    File(<<"b", "EPUB">>, <<>>, <<>>,
         << Rendered(Html(<< <<"b">> >>, <<>>), ""),
            Rendered(Html(<< <<SP>> >>, <<NL>>), ""),
            Rendered(Html(<< <<"c">>, <<"a">> >>, <<>>), "Two") >>)

\* An EPUB none of whose sections yields text.
BookE ==
    File(<<"e", "epub">>, <<>>, <<>>,
         << Rendered(Html(<<>>, <<SP, NL>>), ""), Unloadable >>)

Notes == File(<<"n", "txt">>, <<"a", SP, "b", NL>>, <<>>, <<>>)

Scan == File(<<"d", "PDF">>, <<>>, << << <<"a">>, <<"b">> >>, << <<"c">> >> >>, <<>>)

Picture == File(<<"p", "png">>, <<>>, <<>>, <<>>)

Files == {BookA, BookB, BookE, Notes, Scan, Picture}

\* String.prototype.toLowerCase on the extensions that occur.
toLowerCase(s) ==
    CASE s = "EPUB" -> "epub"
      [] s = "PDF" -> "pdf"
      [] s = "TXT" -> "txt"
      [] OTHER -> s

\* file.name.split('.').pop().toLowerCase()
Extension(name) == toLowerCase(name[Len(name)])

----------------------------------------------------------------------------
(* Messages. *)

ErrTxtRead == "Failed to read TXT file."
ErrEpubTimeout == "EPUB parsing timed out. This file may be incompatible."
ErrEpubExtract == "Failed to extract chapters from EPUB."
ErrEpubNoChapters == "No chapters found in EPUB."
ErrEpubParse == "Failed to parse EPUB file: "
ErrPdfParse == "Failed to parse PDF file."
ErrPdfRead == "Failed to read PDF file."
ErrUnsupported == "Unsupported file type."
NoDefinitionFound == <<"No definition found.">>
ErrorFetchingDefinition == <<"Error fetching definition.">>

----------------------------------------------------------------------------
(* The state. *)

VARIABLES
    \* React state of App (useState).
    fileName,             \* name of the file last selected, EmptyName before
    error,                \* the error message shown, "" if none
    fileContent,          \* raw text of a TXT or PDF file
    words,                \* split text of a TXT or PDF file
    currentWordIdx,       \* the reading cursor
    isPlaying,
    intervalId,           \* id of the interval handlePlay started, or NoTimer
    loading,
    chapters,             \* sequence of [title, text, index]
    selectedChapterIdx,   \* NoIndex or an index into chapters
    chapterWords,         \* token sequence of the active chapter
    showChapters,
    selectedWord,
    selectedWordIdx,
    showDictionary,
    dictionaryDefinition,
    showResumePrompt,
    resumeState,          \* the stored session read at mount, or NoSession
    \* useRef
    pendingResumeRef,     \* NoPending or [selectedChapterIdx, currentWordIdx, showChapters]
    \* The browser.
    storage,              \* localStorage item 'speedreaderState'
    intervals,            \* live setInterval timers: [id, len], len the
                          \* chapterWords.length its callback closed over
    loads,                \* loads in progress, in the order they were started
    lookups,              \* dictionary requests awaiting their response
    \* Counters that bound the model.
    nImports, nLookups

reactVars ==
    << fileName, error, fileContent, words, currentWordIdx, isPlaying,
       intervalId, loading, chapters, selectedChapterIdx, chapterWords,
       showChapters, selectedWord, selectedWordIdx, showDictionary,
       dictionaryDefinition, showResumePrompt, resumeState >>

vars ==
    << reactVars, pendingResumeRef, storage, intervals, loads, lookups >>

----------------------------------------------------------------------------
(* localStorage and JSON. *)

\* localStorage.getItem on a key never written.
NoItem == <<"no item">>
\* A stored value that JSON.parse rejects.
Malformed == <<"not json">>

\* JSON.stringify of the saved object: the text of the four members.
Stringify(state) ==
    << "{", state.fileName, state.selectedChapterIdx, state.currentWordIdx,
       state.showChapters, "}" >>

IsJson(s) == s \notin {NoItem, Malformed}

\* JSON.parse of a text written by Stringify.
Parse(s) ==
    [fileName |-> s[2], selectedChapterIdx |-> s[3], currentWordIdx |-> s[4],
     showChapters |-> s[5]]

\* The object the save effect builds from its dependencies.
SessionOf(f, sel, cur, show) ==
    [fileName |-> f, selectedChapterIdx |-> sel, currentWordIdx |-> cur,
     showChapters |-> show]

Session == SessionOf(fileName, selectedChapterIdx, currentWordIdx, showChapters)

\* The save effect with currentWordIdx missing from its dependency array.
SaveEffectWithoutCursorDependency(store, before, after) ==
    IF [after EXCEPT !.currentWordIdx = before.currentWordIdx] # before
       /\ after.fileName # EmptyName
    THEN Stringify(after)
    ELSE store

\* The save effect after a render: it runs when one of its dependencies has
\* changed since the previous render and writes unless fileName is empty.
SaveEffect(store, before, after) ==
    IF after # before /\ after.fileName # EmptyName
    THEN Stringify(after)
    ELSE store

\* resumeState while it is null.
NoSession == SessionOf(EmptyName, NoIndex, NoIndex, FALSE)

\* pendingResumeRef.current while it is null.
NoPending ==
    [selectedChapterIdx |-> NoIndex, currentWordIdx |-> NoIndex, showChapters |-> FALSE]

\* x ?? d on an index.
Coalesce(x, d) == IF x = NoIndex THEN d ELSE x

----------------------------------------------------------------------------
(* The document loader: the pure part of parseEpub and parsePdf. *)

\* The text parseEpub obtains for one spine item: '' when load rejects or
\* when render and text both reject.
SectionText(sec) ==
    IF ~sec.loadOk THEN <<>>
    ELSE IF sec.renderOk THEN extractCleanTextFromHTML(sec.rendered)
    ELSE IF sec.textOk THEN extractCleanTextFromHTML(sec.text)
    ELSE <<>>

\* `Chapter ${i + 1}`, or the trimmed label of the matching TOC entry.
Title(sec, i) == IF sec.label # "" THEN <<sec.label>> ELSE <<"Chapter", i + 1>>

\* The spine loop without the catch around item.load: a section that does
\* not load ends the loop.
RECURSIVE SpineLoopStopsAtFailure(_, _)
SpineLoopStopsAtFailure(sections, i) ==
    IF i >= Len(sections) THEN <<>>
    ELSE LET sec == sections[i + 1]
             sectionText == SectionText(sec)
         IN  IF ~sec.loadOk THEN <<>>
             ELSE (IF Trim(sectionText) # <<>>
                   THEN << [title |-> Title(sec, i), text |-> sectionText, index |-> i] >>
                   ELSE <<>>)
                      \o SpineLoopStopsAtFailure(sections, i + 1)

\* The spine loop of parseEpub from spine position i on.
RECURSIVE SpineLoop(_, _)
SpineLoop(sections, i) ==
    IF i >= Len(sections) THEN <<>>
    ELSE LET sec == sections[i + 1]
             sectionText == SectionText(sec)
         IN  (IF Trim(sectionText) # <<>>
              THEN << [title |-> Title(sec, i), text |-> sectionText, index |-> i] >>
              ELSE <<>>)
                 \o SpineLoop(sections, i + 1)

\* The spine positions whose item is loaded and not unloaded when the spine
\* loop reaches position i: item.unload() is skipped when render() and then
\* text() reject, because the rejection of text() leaves the inner try.
RECURSIVE Held(_, _)
Held(sections, i) ==
    IF i = 0 THEN {}
    ELSE LET sec == sections[i] IN
         Held(sections, i - 1)
             \cup (IF sec.loadOk /\ ~sec.renderOk /\ ~sec.textOk THEN {i - 1} ELSE {})

\* content.items.map(item => item.str).join(' ')
RECURSIVE Join(_)
Join(items) ==
    IF items = <<>> THEN <<>>
    ELSE IF Len(items) = 1 THEN items[1]
    ELSE items[1] \o <<SP>> \o Join(Tail(items))

\* The text parsePdf accumulates over the pages.
RECURSIVE PdfText(_)
PdfText(pages) ==
    IF pages = <<>> THEN <<>>
    ELSE Join(Head(pages)) \o <<SP>> \o PdfText(Tail(pages))

----------------------------------------------------------------------------
(* The dictionary provider and the mapping of its answer. *)

Sense(definitions) == [definitions |-> definitions]
Entry(meanings) == [meanings |-> meanings]

\* The definition text the provider holds for a word.
DefinitionText(word, n) == <<"definition", n, word>>

Answer(fetchOk, ok, jsonOk, data) ==
    [fetchOk |-> fetchOk, ok |-> ok, jsonOk |-> jsonOk, data |-> data]

\* What the provider can answer to a request for a word: no answer at all
\* (fetch rejects), a non-2xx status, a body that is not JSON, and JSON
\* bodies with no entry, no sense, a sense without definitions, a sense whose
\* definition is the empty string, and two senses with a definition each.
Answers(word) ==
    { Answer(FALSE, FALSE, FALSE, <<>>),
      Answer(TRUE, FALSE, FALSE, <<>>),
      Answer(TRUE, TRUE, FALSE, <<>>),
      Answer(TRUE, TRUE, TRUE, <<>>),
      Answer(TRUE, TRUE, TRUE, << Entry(<<>>) >>),
      Answer(TRUE, TRUE, TRUE, << Entry(<< Sense(<<>>) >>) >>),
      Answer(TRUE, TRUE, TRUE, << Entry(<< Sense(<< <<>> >>) >>) >>),
      Answer(TRUE, TRUE, TRUE,
             << Entry(<< Sense(<< DefinitionText(word, 1) >>),
                         Sense(<< DefinitionText(word, 2) >>) >>) >>) }

\* The mapping with a non-2xx answer treated as a failure of the request.
DefinitionNotOkIsError(answer) ==
    IF ~answer.fetchOk \/ ~answer.ok THEN ErrorFetchingDefinition
    ELSE IF ~answer.jsonOk THEN ErrorFetchingDefinition
    ELSE LET meanings == IF answer.data = <<>> THEN <<>> ELSE answer.data[1].meanings
         IN  IF Len(meanings) > 0
             THEN IF meanings[1].definitions = <<>>
                  THEN ErrorFetchingDefinition
                  ELSE LET definition == meanings[1].definitions[1]
                       IN  IF definition = <<>> THEN NoDefinitionFound ELSE definition
             ELSE NoDefinitionFound

\* The value handleDictionaryLookup passes to setDictionaryDefinition.
Definition(answer) ==
    IF ~answer.fetchOk THEN ErrorFetchingDefinition
    ELSE IF ~answer.ok THEN NoDefinitionFound
    ELSE IF ~answer.jsonOk THEN ErrorFetchingDefinition
    ELSE LET meanings == IF answer.data = <<>> THEN <<>> ELSE answer.data[1].meanings
         IN  IF Len(meanings) > 0
             THEN IF meanings[1].definitions = <<>>
                  THEN ErrorFetchingDefinition
                  ELSE LET definition == meanings[1].definitions[1]
                       IN  IF definition = <<>> THEN NoDefinitionFound ELSE definition
             ELSE NoDefinitionFound

----------------------------------------------------------------------------
(* Helpers of the actions. *)

\* The save effect of the render that ends the step.
Persist == storage' = SaveEffect(storage, Session, Session')

\* The reading pane with its buttons and clickable words is rendered.
PaneRendered ==
    /\ selectedChapterIdx # NoIndex
    /\ selectedChapterIdx + 1 \in DOMAIN chapters

\* A file input is rendered: on the import card before any file, in the
\* chapters sidebar afterwards.
FileInputRendered == fileName = EmptyName \/ showChapters

\* clearInterval(id)
ClearInterval(timers, id) == {t \in timers : t.id # id}

\* The id setInterval returns: one no live timer has and the state does not hold.
NewTimerId ==
    CHOOSE n \in 1..(Cardinality(intervals) + 2) :
        n # intervalId /\ \A t \in intervals : t.id # n

Remove(seq, k) == SubSeq(seq, 1, k - 1) \o SubSeq(seq, k + 1, Len(seq))

Load(file, phase, timer) == [file |-> file, phase |-> phase, timer |-> timer]

----------------------------------------------------------------------------
(* Construction: the first render of App and its mount effects. *)

\* The restore effect without its read of localStorage.
StoredSessionNeverRead(store) == NoSession

\* The restore effect: the session offered for resumption, given the stored item.
StoredSession(store) ==
    IF store = NoItem THEN NoSession
    ELSE IF ~IsJson(store) THEN NoSession
    ELSE IF Parse(store).fileName # EmptyName THEN Parse(store) ELSE NoSession

\* Sessions an earlier run of the program has left in localStorage: the
\* third chapter of BookA read up to its second word, the first chapter of
\* BookA with its third word clicked, and Notes just imported.
PriorSessions ==
    { SessionOf(BookA.name, 2, 1, FALSE),
      SessionOf(BookA.name, 0, 2, TRUE),
      SessionOf(Notes.name, NoIndex, 0, TRUE) }

\* What localStorage can hold when the page is opened.
InitialStorage == {NoItem, Malformed} \cup {Stringify(ps) : ps \in PriorSessions}

Init ==
    /\ storage \in InitialStorage
    /\ fileName = EmptyName
    /\ error = ""
    /\ fileContent = <<>>
    /\ words = <<>>
    /\ currentWordIdx = 0
    /\ isPlaying = FALSE
    /\ intervalId = NoTimer
    /\ loading = FALSE
    /\ chapters = <<>>
    /\ selectedChapterIdx = NoIndex
    /\ chapterWords = <<>>
    /\ showChapters = TRUE
    /\ selectedWord = NoWord
    /\ selectedWordIdx = NoIndex
    /\ showDictionary = FALSE
    /\ dictionaryDefinition = <<>>
    /\ resumeState = StoredSession(storage)
    /\ showResumePrompt = (StoredSession(storage) # NoSession)
    /\ pendingResumeRef = NoPending
    /\ intervals = {}
    /\ loads = <<>>
    /\ lookups = <<>>
    /\ nImports = 0
    /\ nLookups = 0

----------------------------------------------------------------------------
(* Playback. *)

\* The Play button: enabled unless isPlaying or chapterWords is empty.
handlePlay ==
    /\ PaneRendered /\ ~showDictionary
    /\ ~isPlaying /\ Len(chapterWords) # 0
    /\ isPlaying' = TRUE
    /\ showChapters' = FALSE
    /\ IF intervalId # NoTimer
       THEN UNCHANGED <<intervals, intervalId>>
       ELSE /\ intervals' = intervals \cup {[id |-> NewTimerId, len |-> Len(chapterWords)]}
            /\ intervalId' = NewTimerId
    /\ UNCHANGED << fileName, error, fileContent, words, currentWordIdx, loading,
                    chapters, selectedChapterIdx, chapterWords, selectedWord,
                    selectedWordIdx, showDictionary, dictionaryDefinition,
                    showResumePrompt, resumeState, pendingResumeRef, loads,
                    lookups >>
    /\ Persist

\* The callback with its end test off by one: prevIdx < chapterWords.length.
TickPastEnd(t) ==
    /\ t \in intervals
    /\ IF currentWordIdx < t.len
       THEN /\ currentWordIdx' = currentWordIdx + 1
            /\ UNCHANGED <<intervals, isPlaying, intervalId>>
       ELSE /\ intervals' = ClearInterval(intervals, t.id)
            /\ isPlaying' = FALSE
            /\ intervalId' = NoTimer
            /\ UNCHANGED currentWordIdx
    /\ UNCHANGED << fileName, error, fileContent, words, loading, chapters,
                    selectedChapterIdx, chapterWords, showChapters, selectedWord,
                    selectedWordIdx, showDictionary, dictionaryDefinition,
                    showResumePrompt, resumeState, pendingResumeRef, loads,
                    lookups >>
    /\ Persist

\* The callback of the interval t fires.
Tick(t) ==
    /\ t \in intervals
    /\ IF currentWordIdx < t.len - 1
       THEN /\ currentWordIdx' = currentWordIdx + 1
            /\ UNCHANGED <<intervals, isPlaying, intervalId>>
       ELSE /\ intervals' = ClearInterval(intervals, t.id)
            /\ isPlaying' = FALSE
            /\ intervalId' = NoTimer
            /\ UNCHANGED currentWordIdx
    /\ UNCHANGED << fileName, error, fileContent, words, loading, chapters,
                    selectedChapterIdx, chapterWords, showChapters, selectedWord,
                    selectedWordIdx, showDictionary, dictionaryDefinition,
                    showResumePrompt, resumeState, pendingResumeRef, loads,
                    lookups >>
    /\ Persist

\* handlePause without its clearInterval.
PauseUpdateKeepsInterval ==
    /\ isPlaying' = FALSE
    /\ intervalId' = NoTimer
    /\ UNCHANGED intervals

\* The body of handlePause, shared with handleReset.
PauseUpdate ==
    /\ isPlaying' = FALSE
    /\ IF intervalId # NoTimer
       THEN /\ intervals' = ClearInterval(intervals, intervalId)
            /\ intervalId' = NoTimer
       ELSE UNCHANGED <<intervals, intervalId>>

\* The Pause button: enabled while isPlaying.
handlePause ==
    /\ PaneRendered /\ ~showDictionary
    /\ isPlaying
    /\ PauseUpdate
    /\ UNCHANGED << fileName, error, fileContent, words, currentWordIdx, loading,
                    chapters, selectedChapterIdx, chapterWords, showChapters,
                    selectedWord, selectedWordIdx, showDictionary,
                    dictionaryDefinition, showResumePrompt, resumeState,
                    pendingResumeRef, loads, lookups >>
    /\ Persist

\* The Reset button: enabled unless chapterWords is empty.
handleReset ==
    /\ PaneRendered /\ ~showDictionary
    /\ Len(chapterWords) # 0
    /\ currentWordIdx' = 0
    /\ PauseUpdate
    /\ UNCHANGED << fileName, error, fileContent, words, loading, chapters,
                    selectedChapterIdx, chapterWords, showChapters, selectedWord,
                    selectedWordIdx, showDictionary, dictionaryDefinition,
                    showResumePrompt, resumeState, pendingResumeRef, loads,
                    lookups >>
    /\ Persist

\* handleSelectChapter without its setChapterWords.
handleSelectChapterKeepsWords(idx) ==
    /\ fileName # EmptyName /\ showChapters
    /\ idx + 1 \in DOMAIN chapters
    /\ selectedChapterIdx' = idx
    /\ currentWordIdx' = 0
    /\ isPlaying' = FALSE
    /\ intervals' = IF intervalId # NoTimer
                    THEN ClearInterval(intervals, intervalId)
                    ELSE intervals
    /\ intervalId' = NoTimer
    /\ UNCHANGED << fileName, error, fileContent, words, loading, chapters,
                    chapterWords, showChapters, selectedWord, selectedWordIdx,
                    showDictionary, dictionaryDefinition, showResumePrompt,
                    resumeState, pendingResumeRef, loads, lookups >>
    /\ Persist

\* A chapter button of the sidebar.
handleSelectChapter(idx) ==
    /\ fileName # EmptyName /\ showChapters
    /\ idx + 1 \in DOMAIN chapters
    /\ selectedChapterIdx' = idx
    /\ chapterWords' = Split(chapters[idx + 1].text)
    /\ currentWordIdx' = 0
    /\ isPlaying' = FALSE
    /\ intervals' = IF intervalId # NoTimer
                    THEN ClearInterval(intervals, intervalId)
                    ELSE intervals
    /\ intervalId' = NoTimer
    /\ UNCHANGED << fileName, error, fileContent, words, loading, chapters,
                    showChapters, selectedWord, selectedWordIdx, showDictionary,
                    dictionaryDefinition, showResumePrompt, resumeState,
                    pendingResumeRef, loads, lookups >>
    /\ Persist

\* handleWordClick without its clearInterval.
handleWordClickKeepsInterval(idx) ==
    /\ PaneRendered
    /\ idx + 1 \in DOMAIN chapterWords
    /\ currentWordIdx' = idx
    /\ isPlaying' = FALSE
    /\ intervalId' = NoTimer
    /\ selectedWord' = chapterWords[idx + 1]
    /\ selectedWordIdx' = idx
    /\ showDictionary' = FALSE
    /\ UNCHANGED << fileName, error, fileContent, words, loading, chapters,
                    selectedChapterIdx, chapterWords, showChapters,
                    dictionaryDefinition, showResumePrompt, resumeState,
                    pendingResumeRef, intervals, loads, lookups >>
    /\ Persist

\* A word of the preview is clicked.
handleWordClick(idx) ==
    /\ PaneRendered
    /\ idx + 1 \in DOMAIN chapterWords
    /\ currentWordIdx' = idx
    /\ isPlaying' = FALSE
    /\ intervals' = IF intervalId # NoTimer
                    THEN ClearInterval(intervals, intervalId)
                    ELSE intervals
    /\ intervalId' = NoTimer
    /\ selectedWord' = chapterWords[idx + 1]
    /\ selectedWordIdx' = idx
    /\ showDictionary' = FALSE
    /\ UNCHANGED << fileName, error, fileContent, words, loading, chapters,
                    selectedChapterIdx, chapterWords, showChapters,
                    dictionaryDefinition, showResumePrompt, resumeState,
                    pendingResumeRef, loads, lookups >>
    /\ Persist

\* The two round buttons that hide and show the chapters sidebar.
HideChapters ==
    /\ fileName # EmptyName /\ showChapters
    /\ showChapters' = FALSE
    /\ UNCHANGED << fileName, error, fileContent, words, currentWordIdx, isPlaying,
                    intervalId, loading, chapters, selectedChapterIdx, chapterWords,
                    selectedWord, selectedWordIdx, showDictionary,
                    dictionaryDefinition, showResumePrompt, resumeState,
                    pendingResumeRef, intervals, loads, lookups >>
    /\ Persist

ShowChapters ==
    /\ fileName # EmptyName /\ ~showChapters
    /\ showChapters' = TRUE
    /\ UNCHANGED << fileName, error, fileContent, words, currentWordIdx, isPlaying,
                    intervalId, loading, chapters, selectedChapterIdx, chapterWords,
                    selectedWord, selectedWordIdx, showDictionary,
                    dictionaryDefinition, showResumePrompt, resumeState,
                    pendingResumeRef, intervals, loads, lookups >>
    /\ Persist

----------------------------------------------------------------------------
(* Import. *)

\* handleFileChange with setLoading(true) ahead of the test of the extension.
handleFileChangeLoadsFirst(file) ==
    /\ FileInputRendered
    /\ fileName' = file.name
    /\ loading' = TRUE
    /\ LET ext == Extension(file.name) IN
       IF ext = "txt" \/ ext = "pdf"
       THEN /\ error' = ""
            /\ loads' = Append(loads, Load(file, "read", "none"))
       ELSE IF ext = "epub"
       THEN /\ error' = ""
            /\ loads' = Append(loads, Load(file, "open", "none"))
       ELSE /\ error' = ErrUnsupported
            /\ UNCHANGED loads
    /\ UNCHANGED << fileContent, words, currentWordIdx, isPlaying, intervalId,
                    chapters, selectedChapterIdx, chapterWords, showChapters,
                    selectedWord, selectedWordIdx, showDictionary,
                    dictionaryDefinition, showResumePrompt, resumeState,
                    pendingResumeRef, intervals, lookups >>
    /\ Persist

\* A file is chosen in the file dialog.  parseTxt, parseEpub and parsePdf run
\* up to their first suspension: the read or the open of the file.
handleFileChange(file) ==
    /\ FileInputRendered
    /\ fileName' = file.name
    /\ LET ext == Extension(file.name) IN
       IF ext = "txt" \/ ext = "pdf"
       THEN /\ error' = ""
            /\ loading' = TRUE
            /\ loads' = Append(loads, Load(file, "read", "none"))
       ELSE IF ext = "epub"
       THEN /\ error' = ""
            /\ loading' = TRUE
            /\ loads' = Append(loads, Load(file, "open", "none"))
       ELSE /\ error' = ErrUnsupported
            /\ UNCHANGED <<loading, loads>>
    /\ UNCHANGED << fileContent, words, currentWordIdx, isPlaying, intervalId,
                    chapters, selectedChapterIdx, chapterWords, showChapters,
                    selectedWord, selectedWordIdx, showDictionary,
                    dictionaryDefinition, showResumePrompt, resumeState,
                    pendingResumeRef, intervals, lookups >>
    /\ Persist

\* What every completion of a TXT or PDF load leaves alone.
TextLoadFrame ==
    UNCHANGED << fileName, isPlaying, intervalId, chapters, selectedChapterIdx,
                 chapterWords, showChapters, selectedWord, selectedWordIdx,
                 showDictionary, dictionaryDefinition, showResumePrompt,
                 resumeState, pendingResumeRef, intervals, lookups >>

\* reader.onload of parseTxt.
TxtLoaded(k) ==
    /\ k \in DOMAIN loads
    /\ loads[k].phase = "read" /\ Extension(loads[k].file.name) = "txt"
    /\ fileContent' = loads[k].file.text
    /\ words' = Split(loads[k].file.text)
    /\ currentWordIdx' = 0
    /\ loading' = FALSE
    /\ loads' = Remove(loads, k)
    /\ UNCHANGED error
    /\ TextLoadFrame
    /\ Persist

\* reader.onerror of parseTxt.
TxtReadError(k) ==
    /\ k \in DOMAIN loads
    /\ loads[k].phase = "read" /\ Extension(loads[k].file.name) = "txt"
    /\ error' = ErrTxtRead
    /\ loading' = FALSE
    /\ loads' = Remove(loads, k)
    /\ UNCHANGED <<fileContent, words, currentWordIdx>>
    /\ TextLoadFrame
    /\ Persist

\* reader.onload of parsePdf with every page decoded.
PdfLoaded(k) ==
    /\ k \in DOMAIN loads
    /\ loads[k].phase = "read" /\ Extension(loads[k].file.name) = "pdf"
    /\ fileContent' = PdfText(loads[k].file.pages)
    /\ words' = Split(PdfText(loads[k].file.pages))
    /\ currentWordIdx' = 0
    /\ loading' = FALSE
    /\ loads' = Remove(loads, k)
    /\ UNCHANGED error
    /\ TextLoadFrame
    /\ Persist

\* reader.onload of parsePdf with the decoder rejecting the document or a
\* page (msg = ErrPdfParse), and reader.onerror (msg = ErrPdfRead).
PdfFailed(k, msg) ==
    /\ k \in DOMAIN loads
    /\ loads[k].phase = "read" /\ Extension(loads[k].file.name) = "pdf"
    /\ msg \in {ErrPdfParse, ErrPdfRead}
    /\ error' = msg
    /\ loading' = FALSE
    /\ loads' = Remove(loads, k)
    /\ UNCHANGED <<fileContent, words, currentWordIdx>>
    /\ TextLoadFrame
    /\ Persist

\* What the steps of an EPUB load before its result leave alone.
EpubStepFrame ==
    UNCHANGED << fileName, fileContent, words, currentWordIdx, isPlaying,
                 intervalId, chapters, selectedChapterIdx, chapterWords,
                 showChapters, selectedWord, selectedWordIdx, showDictionary,
                 dictionaryDefinition, showResumePrompt, resumeState,
                 pendingResumeRef, intervals, lookups >>

\* book.open and book.ready resolve: the 20 s timeout is armed and the spine
\* loop starts.
EpubOpened(k) ==
    /\ k \in DOMAIN loads
    /\ loads[k].phase = "open"
    /\ loads' = [loads EXCEPT ![k] = Load(@.file, "extract", "armed")]
    /\ UNCHANGED <<error, loading>>
    /\ EpubStepFrame
    /\ Persist

\* book.open or book.ready rejects: the outer catch.
EpubOpenFailed(k) ==
    /\ k \in DOMAIN loads
    /\ loads[k].phase = "open"
    /\ error' = ErrEpubParse
    /\ loading' = FALSE
    /\ loads' = Remove(loads, k)
    /\ EpubStepFrame
    /\ Persist

\* The callback of the 20 s timeout fires while the spine loop is running.
EpubTimeout(k) ==
    /\ k \in DOMAIN loads
    /\ loads[k].phase = "extract" /\ loads[k].timer = "armed"
    /\ error' = ErrEpubTimeout
    /\ loading' = FALSE
    /\ loads' = [loads EXCEPT ![k] = Load(@.file, "extract", "fired")]
    /\ EpubStepFrame
    /\ Persist

\* The inner catch without its setLoading(false).
EpubExtractFailedKeepsLoading(k) ==
    /\ k \in DOMAIN loads
    /\ loads[k].phase = "extract"
    /\ error' = ErrEpubExtract
    /\ loads' = Remove(loads, k)
    /\ UNCHANGED loading
    /\ EpubStepFrame
    /\ Persist

\* book.loaded.navigation rejects: the inner catch, which clears the timeout.
EpubExtractFailed(k) ==
    /\ k \in DOMAIN loads
    /\ loads[k].phase = "extract"
    /\ error' = ErrEpubExtract
    /\ loading' = FALSE
    /\ loads' = Remove(loads, k)
    /\ EpubStepFrame
    /\ Persist

\* The condition of the resume effect, which runs after a render in which
\* chapters has changed.
ResumeApplies(pending, chs) ==
    /\ pending # NoPending
    /\ Len(chs) > 0
    /\ pending.selectedChapterIdx \in Int
    /\ pending.selectedChapterIdx + 1 \in DOMAIN chs

\* The resume effect without its setCurrentWordIdx: the cursor stays where the
\* import put it.
ResumeEffectKeepsCursor(pending, st) ==
    IF ResumeApplies(pending, st.chapters)
    THEN [st EXCEPT
            !.selectedChapterIdx = pending.selectedChapterIdx,
            !.chapterWords = Split(st.chapters[pending.selectedChapterIdx + 1].text),
            !.showChapters = pending.showChapters,
            !.pending = NoPending]
    ELSE st

\* The resume effect: given the pending resume and the state of the render
\* it follows, the state it leaves.
ResumeEffect(pending, st) ==
    IF ResumeApplies(pending, st.chapters)
    THEN [st EXCEPT
            !.selectedChapterIdx = pending.selectedChapterIdx,
            !.chapterWords = Split(st.chapters[pending.selectedChapterIdx + 1].text),
            !.currentWordIdx = pending.currentWordIdx,
            !.showChapters = pending.showChapters,
            !.pending = NoPending]
    ELSE st

\* The result handling without the test for an empty chapterArr: the first
\* chapter, with the text '', is selected.
EpubResultWithoutEmptyCase(chapterArr) ==
    [chapters |-> chapterArr, selectedChapterIdx |-> 0,
     chapterWords |-> IF chapterArr = <<>> THEN Split(<<>>)
                      ELSE Split(chapterArr[1].text),
     currentWordIdx |-> 0, showChapters |-> showChapters,
     pending |-> pendingResumeRef]

\* The state parseEpub sets once the spine loop has produced chapterArr.
EpubResult(chapterArr) ==
    IF chapterArr = <<>>
    THEN [chapters |-> <<>>, selectedChapterIdx |-> NoIndex, chapterWords |-> <<>>,
          currentWordIdx |-> currentWordIdx, showChapters |-> showChapters,
          pending |-> pendingResumeRef]
    ELSE [chapters |-> chapterArr, selectedChapterIdx |-> 0,
          chapterWords |-> Split(chapterArr[1].text),
          currentWordIdx |-> 0, showChapters |-> showChapters,
          pending |-> pendingResumeRef]

\* The spine loop ends: parseEpub clears the timeout and sets its result, the
\* component renders, the save effect and the resume effect run, and the
\* component renders again if the resume effect changed the state.
EpubExtracted(k) ==
    /\ k \in DOMAIN loads
    /\ loads[k].phase = "extract"
    /\ LET chapterArr == SpineLoop(loads[k].file.sections, 0)
           set == EpubResult(chapterArr)
           end == ResumeEffect(pendingResumeRef, set)
           rendered == SessionOf(fileName, set.selectedChapterIdx,
                                 set.currentWordIdx, set.showChapters)
       IN  /\ error' = IF chapterArr = <<>> THEN ErrEpubNoChapters ELSE error
           /\ chapters' = end.chapters
           /\ selectedChapterIdx' = end.selectedChapterIdx
           /\ chapterWords' = end.chapterWords
           /\ currentWordIdx' = end.currentWordIdx
           /\ showChapters' = end.showChapters
           /\ pendingResumeRef' = end.pending
           /\ fileContent' = <<>>
           /\ words' = <<>>
           /\ loading' = FALSE
           /\ loads' = Remove(loads, k)
           /\ UNCHANGED << fileName, isPlaying, intervalId, selectedWord,
                           selectedWordIdx, showDictionary, dictionaryDefinition,
                           showResumePrompt, resumeState, intervals, lookups >>
           /\ storage' = SaveEffect(SaveEffect(storage, Session, rendered),
                                    rendered, Session')

----------------------------------------------------------------------------
(* Resume. *)

\* The Resume Reading button of the prompt.
handleResume ==
    /\ fileName = EmptyName /\ showResumePrompt /\ resumeState # NoSession
    /\ pendingResumeRef' =
           [selectedChapterIdx |-> Coalesce(resumeState.selectedChapterIdx, 0),
            currentWordIdx |-> Coalesce(resumeState.currentWordIdx, 0),
            showChapters |-> resumeState.showChapters]
    /\ fileName' = resumeState.fileName
    /\ showResumePrompt' = FALSE
    /\ UNCHANGED << error, fileContent, words, currentWordIdx, isPlaying,
                    intervalId, loading, chapters, selectedChapterIdx,
                    chapterWords, showChapters, selectedWord, selectedWordIdx,
                    showDictionary, dictionaryDefinition, resumeState, intervals,
                    loads, lookups >>
    /\ Persist

\* The Dismiss button of the prompt.
DismissResume ==
    /\ fileName = EmptyName /\ showResumePrompt /\ resumeState # NoSession
    /\ showResumePrompt' = FALSE
    /\ UNCHANGED << fileName, error, fileContent, words, currentWordIdx, isPlaying,
                    intervalId, loading, chapters, selectedChapterIdx,
                    chapterWords, showChapters, selectedWord, selectedWordIdx,
                    showDictionary, dictionaryDefinition, resumeState,
                    pendingResumeRef, intervals, loads, lookups >>
    /\ Persist

----------------------------------------------------------------------------
(* Dictionary. *)

\* The Define button: enabled unless chapterWords is empty.  The handler runs
\* up to its fetch.
handleDictionaryLookup ==
    /\ PaneRendered /\ ~showDictionary
    /\ Len(chapterWords) # 0
    /\ IF Len(chapterWords) > 0 /\ currentWordIdx >= 0
          /\ currentWordIdx < Len(chapterWords)
       THEN /\ selectedWord' = chapterWords[currentWordIdx + 1]
            /\ selectedWordIdx' = currentWordIdx
            /\ showDictionary' = TRUE
            /\ dictionaryDefinition' = <<>>
            /\ lookups' = Append(lookups, [word |-> chapterWords[currentWordIdx + 1]])
       ELSE UNCHANGED << selectedWord, selectedWordIdx, showDictionary,
                         dictionaryDefinition, lookups >>
    /\ UNCHANGED << fileName, error, fileContent, words, currentWordIdx, isPlaying,
                    intervalId, loading, chapters, selectedChapterIdx,
                    chapterWords, showChapters, showResumePrompt, resumeState,
                    pendingResumeRef, intervals, loads >>
    /\ Persist

\* The provider's answer to the request lookups[k] arrives, or its fetch
\* rejects, and the handler runs to its end.
DictionaryResponse(k, answer) ==
    /\ k \in DOMAIN lookups
    /\ answer \in Answers(lookups[k].word)
    /\ lookups' = Remove(lookups, k)
    /\ dictionaryDefinition' = Definition(answer)
    /\ UNCHANGED << fileName, error, fileContent, words, currentWordIdx, isPlaying,
                    intervalId, loading, chapters, selectedChapterIdx,
                    chapterWords, showChapters, selectedWord, selectedWordIdx,
                    showDictionary, showResumePrompt, resumeState,
                    pendingResumeRef, intervals, loads >>
    /\ Persist

\* The Close button of the definition overlay.
CloseDictionary ==
    /\ PaneRendered /\ showDictionary
    /\ showDictionary' = FALSE
    /\ UNCHANGED << fileName, error, fileContent, words, currentWordIdx, isPlaying,
                    intervalId, loading, chapters, selectedChapterIdx,
                    chapterWords, showChapters, selectedWord, selectedWordIdx,
                    dictionaryDefinition, showResumePrompt, resumeState,
                    pendingResumeRef, intervals, loads, lookups >>
    /\ Persist

----------------------------------------------------------------------------
(* The specifications.  The events are grouped, and each specification     *)
(* lets the user and the environment produce the events of some groups.    *)

Steady == UNCHANGED <<nImports, nLookups>>

\* A file of the set files is chosen, at most max times in a behaviour.
Import(files, max) ==
    /\ nImports < max
    /\ nImports' = nImports + 1
    /\ UNCHANGED nLookups
    /\ \E file \in files : handleFileChange(file)

\* The completions of the TXT and PDF loads in progress.
TextLoading ==
    \/ \E k \in DOMAIN loads : TxtLoaded(k) /\ Steady
    \/ \E k \in DOMAIN loads : TxtReadError(k) /\ Steady
    \/ \E k \in DOMAIN loads : PdfLoaded(k) /\ Steady
    \/ \E k \in DOMAIN loads, msg \in {ErrPdfParse, ErrPdfRead} : PdfFailed(k, msg) /\ Steady

\* The steps of the EPUB loads in progress.
EpubLoading ==
    \/ \E k \in DOMAIN loads : EpubOpened(k) /\ Steady
    \/ \E k \in DOMAIN loads : EpubOpenFailed(k) /\ Steady
    \/ \E k \in DOMAIN loads : EpubTimeout(k) /\ Steady
    \/ \E k \in DOMAIN loads : EpubExtractFailed(k) /\ Steady
    \/ \E k \in DOMAIN loads : EpubExtracted(k) /\ Steady

\* The interval of handlePlay fires.
Ticking == \E t \in intervals : Tick(t) /\ Steady

\* The playback buttons, the interval and the words of the preview.
Playback ==
    \/ handlePlay /\ Steady
    \/ Ticking
    \/ handlePause /\ Steady
    \/ handleReset /\ Steady
    \/ \E idx \in 0..(Len(chapterWords) - 1) : handleWordClick(idx) /\ Steady

\* The chapters sidebar.
Sidebar ==
    \/ \E idx \in 0..(Len(chapters) - 1) : handleSelectChapter(idx) /\ Steady
    \/ HideChapters /\ Steady
    \/ ShowChapters /\ Steady

\* The resume prompt.
Resume ==
    \/ handleResume /\ Steady
    \/ DismissResume /\ Steady

\* The Define button, the provider's answers and the overlay.
Dictionary ==
    \/ /\ nLookups < MaxLookups
       /\ nLookups' = nLookups + 1
       /\ UNCHANGED nImports
       /\ handleDictionaryLookup
    \/ \E k \in DOMAIN lookups : \E answer \in Answers(lookups[k].word) :
           DictionaryResponse(k, answer) /\ Steady
    \/ CloseDictionary /\ Steady

\* The reading session: every event but those of the dictionary, with
\* MaxImports files chosen.
Next ==
    \/ Import(Files, MaxImports)
    \/ TextLoading
    \/ EpubLoading
    \/ Playback
    \/ Sidebar
    \/ Resume

Spec == Init /\ [][Next]_vars

\* setInterval calls its callback again and again until the interval is
\* cleared.
FairSpec == Spec /\ WF_vars(Ticking)

\* The reading session over the two books, with one more file chosen, so
\* that a document is replaced by another.
NextReimport ==
    \/ Import({BookA, BookB}, MaxImports + 1)
    \/ EpubLoading
    \/ Playback
    \/ Sidebar
    \/ Resume

SpecReimport == Init /\ [][NextReimport]_vars

\* The words of the preview are clicked and nothing is played.
WordClicks == \E idx \in 0..(Len(chapterWords) - 1) : handleWordClick(idx) /\ Steady

\* The dictionary on a first visit, over one book that is read by clicking
\* its words: no playback, no sidebar and no resume.
NextDictionary ==
    \/ Import({BookA}, MaxImports)
    \/ EpubLoading
    \/ WordClicks
    \/ Dictionary

\* The page is opened for the first time: localStorage holds no item.
InitFirstVisit == Init /\ storage = NoItem

SpecDictionary == InitFirstVisit /\ [][NextDictionary]_vars

\* The characters of the texts of SpecTexts: a letter, a full stop, a space
\* and a line break.
Alphabet == {"a", ".", SP, NL}

\* The strings of at most n characters.
Texts(n) == UNION { [1..m -> Alphabet] : m \in 0..n }

\* The EPUBs of one spine section whose document has no p or li element and
\* a body of at most MaxLen characters.
TextBooks ==
    { File(<<"t", "epub">>, <<>>, <<>>, << Rendered(Html(<<>>, body), "") >>) :
          body \in Texts(MaxLen) }

\* The file input of the import card, which is shown until a file is chosen.
FirstImport(files) ==
    /\ fileName = EmptyName
    /\ \E file \in files : handleFileChange(file)
    /\ Steady

\* A first visit on which one of TextBooks is imported.
NextTexts ==
    \/ FirstImport(TextBooks)
    \/ EpubLoading

SpecTexts == InitFirstVisit /\ [][NextTexts]_vars

----------------------------------------------------------------------------
(* The claims. *)

\* A chapter is active: one is selected.
ChapterActive == selectedChapterIdx # NoIndex

\* C1: whenever a chapter is active and its token sequence is non-empty,
\* 0 <= wordIndex < length of the active token sequence.
C1_CursorInRange ==
    (ChapterActive /\ Len(chapterWords) > 0)
        => (0 <= currentWordIdx /\ currentWordIdx < Len(chapterWords))

\* C2: at most one tick source is live at any time and one is live only
\* while playing; pause, reset and selectChapter leave none, so that no tick
\* can fire; a tick fires only while playing; and a tick source comes into
\* being, and playing begins, by play() alone.
C2_OneTickSource ==
    [][ /\ Cardinality(intervals') <= 1
        /\ intervals' # {} => isPlaying'
        /\ (handlePause \/ handleReset
              \/ \E idx \in 0..(Len(chapters) - 1) : handleSelectChapter(idx))
             => (intervals' = {} /\ ~isPlaying')
        /\ (intervals' \ intervals # {}) => handlePlay
        /\ (~isPlaying /\ isPlaying') => handlePlay
        /\ (\E t \in intervals : Tick(t)) => isPlaying
      ]_vars

\* Playback was started on a fresh page, ran into the chapter and was paused
\* there: the cursor is where the ticks left it and no tick source is live.
C2_Witness ==
    /\ resumeState = NoSession
    /\ ~isPlaying /\ intervals = {} /\ intervalId = NoTimer
    /\ selectedWordIdx = NoIndex
    /\ currentWordIdx > 0 /\ currentWordIdx < Len(chapterWords) - 1

\* C3: a tick of the interval started on the active token sequence advances
\* the cursor by exactly 1 while it is before the last token, and at the last
\* token it stops the tick source and leaves the state Idle with the cursor
\* on the last token; under fair ticking, playing always comes to an end.
C3_TicksToTheEnd ==
    /\ [][ \A t \in intervals :
             (Tick(t) /\ t.len = Len(chapterWords)
                 /\ currentWordIdx < Len(chapterWords))
             => IF currentWordIdx < Len(chapterWords) - 1
                THEN /\ currentWordIdx' = currentWordIdx + 1
                     /\ isPlaying' /\ intervals' = intervals
                ELSE /\ currentWordIdx' = Len(chapterWords) - 1
                     /\ ~isPlaying' /\ intervals' = {} /\ intervalId' = NoTimer
         ]_vars
    /\ (isPlaying ~> ~isPlaying)

\* Playback on a fresh page has run over a chapter of three tokens or more
\* and has stopped on the last one.
C3_Witness ==
    /\ resumeState = NoSession
    /\ Len(chapterWords) >= 3
    /\ currentWordIdx = Len(chapterWords) - 1
    /\ selectedWordIdx = NoIndex
    /\ ~showChapters
    /\ ~isPlaying /\ intervals = {}

\* C4: play() on a finished chapter (cursor on the last token, not playing)
\* is a no-op: the state stays Idle, no tick source is started and no
\* session field changes.
C4_PlayAtEndIsNoOp ==
    [][ (handlePlay /\ ~isPlaying /\ intervals = {}
            /\ Len(chapterWords) > 0
            /\ currentWordIdx = Len(chapterWords) - 1)
        => (~isPlaying' /\ intervals' = {} /\ UNCHANGED <<reactVars, storage>>)
      ]_vars

\* C5: seek(index) with 0 <= index < length, in any playback state, stops
\* the tick source, sets the cursor to index, leaves the state non-Playing
\* and sets the selection highlight to the token at index and to index.
C5_Seek ==
    [][ \A idx \in 0..(Len(chapterWords) - 1) :
          handleWordClick(idx)
          => /\ intervals' = {} /\ intervalId' = NoTimer
             /\ ~isPlaying'
             /\ currentWordIdx' = idx
             /\ selectedWord' = chapterWords[idx + 1]
             /\ selectedWordIdx' = idx
             /\ chapterWords' = chapterWords
      ]_vars

\* A word behind the cursor was clicked after playback on a fresh page had
\* hidden the sidebar: the cursor and the highlight are on that word and
\* nothing is playing.
C5_Witness ==
    /\ resumeState = NoSession
    /\ ~showChapters
    /\ selectedWordIdx = 1 /\ currentWordIdx = 1
    /\ selectedWord = chapterWords[2]
    /\ ~isPlaying /\ intervals = {}

\* The load loads[k] ends without a document: a read, open or extraction
\* failure, or an EPUB without chapters.
LoadFails(k) ==
    \/ TxtReadError(k)
    \/ \E msg \in {ErrPdfParse, ErrPdfRead} : PdfFailed(k, msg)
    \/ EpubOpenFailed(k)
    \/ EpubExtractFailed(k)
    \/ EpubExtracted(k) /\ SpineLoop(loads[k].file.sections, 0) = <<>>

\* The chapter index of the pending resume is an index of the chapter list.
InRange(pending, chapterArr) ==
    /\ 0 <= pending.selectedChapterIdx
    /\ pending.selectedChapterIdx < Len(chapterArr)

\* C6: when a PendingResume is outstanding and the next import fails or
\* yields a chapter list in which pending.selectedChapterIdx is out of range,
\* the PendingResume is discarded, so that no later import is affected by
\* it, and a loaded document starts at chapter 0 with wordIndex 0.
C6_InvalidResumeDiscarded ==
    [][ \A k \in DOMAIN loads :
          LET chapterArr == SpineLoop(loads[k].file.sections, 0) IN
          /\ (pendingResumeRef # NoPending /\ LoadFails(k))
                => pendingResumeRef' = NoPending
          /\ (pendingResumeRef # NoPending /\ EpubExtracted(k)
                /\ chapterArr # <<>> /\ ~InRange(pendingResumeRef, chapterArr))
                => /\ pendingResumeRef' = NoPending
                   /\ selectedChapterIdx' = 0
                   /\ currentWordIdx' = 0
      ]_vars

\* C7: when a PendingResume is outstanding and an EPUB load started any time
\* after the acceptance ends with a chapter list in which
\* pending.selectedChapterIdx is in range, the active chapter becomes
\* pending.selectedChapterIdx with its regenerated token sequence, wordIndex
\* becomes pending.currentWordIdx, showChapters becomes pending.showChapters
\* and the PendingResume is discarded; a PendingResume changes in no other
\* way, and once discarded none is outstanding again.
C7_ResumeAppliedOnce ==
    [][ /\ \A k \in DOMAIN loads :
             LET chapterArr == SpineLoop(loads[k].file.sections, 0) IN
             (pendingResumeRef # NoPending /\ EpubExtracted(k)
                 /\ InRange(pendingResumeRef, chapterArr))
             => /\ chapters' = chapterArr
                /\ selectedChapterIdx' = pendingResumeRef.selectedChapterIdx
                /\ chapterWords' =
                       Split(chapterArr[pendingResumeRef.selectedChapterIdx + 1].text)
                /\ currentWordIdx' = pendingResumeRef.currentWordIdx
                /\ showChapters' = pendingResumeRef.showChapters
                /\ pendingResumeRef' = NoPending
        /\ (pendingResumeRef # NoPending /\ pendingResumeRef' # pendingResumeRef)
             => \E k \in DOMAIN loads :
                    /\ EpubExtracted(k)
                    /\ InRange(pendingResumeRef, SpineLoop(loads[k].file.sections, 0))
        /\ (pendingResumeRef = NoPending /\ pendingResumeRef' # NoPending)
             => (handleResume /\ fileName = EmptyName)
      ]_vars

\* The session of the third chapter of BookA was resumed, the load of BookA
\* timed out before it ended, and the reader is on the stored chapter and
\* word with the sidebar hidden as stored.
C7_Witness ==
    /\ resumeState = SessionOf(BookA.name, 2, 1, FALSE)
    /\ ~showResumePrompt
    /\ pendingResumeRef = NoPending
    /\ error = ErrEpubTimeout
    /\ fileName = BookA.name
    /\ selectedChapterIdx = 2 /\ currentWordIdx = 1 /\ ~showChapters
    /\ chapterWords = Split(chapters[3].text)
    /\ ~isPlaying /\ selectedWordIdx = NoIndex

\* C8: once the responses to all lookups have arrived, in whichever order,
\* the definition on display is one for the word issued last, the word of
\* the overlay.
C8_LastLookupWins ==
    (showDictionary /\ lookups = <<>> /\ dictionaryDefinition # <<>>)
        => dictionaryDefinition \in {Definition(answer) : answer \in Answers(selectedWord)}

\* The senses of the first entry of a parsed answer.
Senses(answer) == IF answer.data = <<>> THEN <<>> ELSE answer.data[1].meanings

\* The outcome the claim gives for an answer: Error on a transport or parse
\* failure, NotFound on a non-success response or zero senses, and otherwise
\* Found with the first sense's definition string.
ClaimedOutcome(answer) ==
    IF ~answer.fetchOk \/ (answer.ok /\ ~answer.jsonOk) THEN ErrorFetchingDefinition
    ELSE IF ~answer.ok \/ Len(Senses(answer)) = 0 THEN NoDefinitionFound
    ELSE IF Senses(answer)[1].definitions = <<>> THEN <<>>
    ELSE Senses(answer)[1].definitions[1]

\* The outcome as amended: Found needs the first sense's first definition to
\* be a non-empty string; an empty one is NotFound, a missing one is Error.
AmendedOutcome(answer) ==
    IF ~answer.fetchOk \/ (answer.ok /\ ~answer.jsonOk) THEN ErrorFetchingDefinition
    ELSE IF ~answer.ok \/ Len(Senses(answer)) = 0 THEN NoDefinitionFound
    ELSE IF Senses(answer)[1].definitions = <<>> THEN ErrorFetchingDefinition
    ELSE IF Senses(answer)[1].definitions[1] = <<>> THEN NoDefinitionFound
    ELSE Senses(answer)[1].definitions[1]

\* define() with the cursor on a token issues exactly one request, a response
\* issues none (no retry), and nothing else issues one.
OneRequestPerLookup ==
    /\ (handleDictionaryLookup /\ currentWordIdx < Len(chapterWords))
         => lookups' = Append(lookups, [word |-> chapterWords[currentWordIdx + 1]])
    /\ Len(lookups') > Len(lookups) => handleDictionaryLookup
    /\ \A k \in DOMAIN lookups : \A answer \in Answers(lookups[k].word) :
           DictionaryResponse(k, answer) => lookups' = Remove(lookups, k)

\* C9 as claimed: one request per define(word), no retry, and the one outcome
\* ClaimedOutcome.
C9_OutcomeAsClaimed ==
    [][ /\ OneRequestPerLookup
        /\ \A k \in DOMAIN lookups : \A answer \in Answers(lookups[k].word) :
               DictionaryResponse(k, answer)
                   => dictionaryDefinition' = ClaimedOutcome(answer)
      ]_vars

\* C9 as amended: one request per define(word), no retry, and the one outcome
\* AmendedOutcome.
C9_Outcome ==
    [][ /\ OneRequestPerLookup
        /\ \A k \in DOMAIN lookups : \A answer \in Answers(lookups[k].word) :
               DictionaryResponse(k, answer)
                   => dictionaryDefinition' = AmendedOutcome(answer)
      ]_vars

\* The only lookup issued has been answered with senses and the overlay
\* shows the definition of the first sense of its word.
C9_Witness ==
    /\ showDictionary
    /\ nLookups = 1 /\ lookups = <<>>
    /\ dictionaryDefinition = DefinitionText(selectedWord, 1)

\* C10: whenever a file name is set, the storage slot holds exactly the
\* current tuple {fileName, selectedChapterIdx, currentWordIdx, showChapters}.
C10_SlotHoldsSession ==
    fileName # EmptyName => storage = Stringify(Session)

\* The cursor has moved on while playing, and the slot holds the new tuple.
C10_Witness ==
    /\ isPlaying
    /\ currentWordIdx > 0
    /\ fileName # EmptyName
    /\ storage = Stringify(Session)

\* C11: at process start the stored session is read once: a well-formed
\* stored tuple gives a resume offer of that tuple; a missing or malformed
\* stored value gives no offer, no error and every other session field at its
\* initial value; and the offer is never read again or made again.
C11_StoredSessionReadOnce ==
    /\ IsJson(storage) => (showResumePrompt /\ resumeState = Parse(storage))
    /\ storage \in {NoItem, Malformed}
          => /\ ~showResumePrompt /\ resumeState = NoSession
             /\ error = "" /\ ~loading
             /\ fileName = EmptyName /\ chapters = <<>>
             /\ selectedChapterIdx = NoIndex /\ chapterWords = <<>>
             /\ currentWordIdx = 0 /\ showChapters
             /\ pendingResumeRef = NoPending
    /\ [][ /\ resumeState' = resumeState
           /\ showResumePrompt' => showResumePrompt ]_vars

\* The page has been opened on the stored session of the third chapter of
\* BookA and offers it.
C11_Witness ==
    /\ showResumePrompt
    /\ resumeState = SessionOf(BookA.name, 2, 1, FALSE)
    /\ storage = Stringify(resumeState)
    /\ fileName = EmptyName /\ pendingResumeRef = NoPending

Supported == {"epub", "pdf", "txt"}

\* C13: choosing a file whose extension is not epub, pdf or txt fails at once
\* with the unsupported-format error: no load is started, the loading
\* indicator is not turned on, and the chapter list, the active chapter, the
\* token sequence and the cursor are unchanged.
C13_UnsupportedFailsAtOnce ==
    [][ \A file \in Files :
          (Extension(file.name) \notin Supported /\ handleFileChange(file))
              => /\ error' = ErrUnsupported
                 /\ loads' = loads
                 /\ loading' = loading
                 /\ UNCHANGED <<chapters, selectedChapterIdx, chapterWords,
                                currentWordIdx>>
      ]_vars

\* The picture has been chosen and refused.
C13_Witness ==
    /\ fileName = Picture.name
    /\ error = ErrUnsupported
    /\ ~loading /\ loads = <<>>
    /\ chapters = <<>> /\ currentWordIdx = 0

\* C14: a TXT or PDF load that succeeds leaves a chapter list of exactly one
\* chapter, which is the active chapter 0, and a non-empty token sequence
\* for the Play button to run through.
C14_TextFileIsOneChapter ==
    [][ \A k \in DOMAIN loads :
          (TxtLoaded(k) \/ PdfLoaded(k))
              => /\ Len(chapters') = 1
                 /\ selectedChapterIdx' = 0
                 /\ chapterWords' # <<>>
      ]_vars

\* C15: the text of every chapter, which is an output of the normalisation,
\* is a fixed point of it.
C15_NormalizeIdempotent ==
    \A j \in DOMAIN chapters :
        NormalizeWhitespace(chapters[j].text) = chapters[j].text

\* A token: a non-empty string without whitespace.
IsToken(t) == t # <<>> /\ \A i \in DOMAIN t : ~IsSpace(t[i])

\* C16: on every load path the token sequence holds no empty token and no
\* token with whitespace in it.
C16_TokensAreWords ==
    /\ \A i \in DOMAIN words : IsToken(words[i])
    /\ \A i \in DOMAIN chapterWords : IsToken(chapterWords[i])

\* C17: accepting the resume offer changes neither the chapter list, the
\* active chapter, the token sequence, the cursor nor the chapter and word
\* coordinates held in the storage slot.
C17_ResumeOnlyRecords ==
    [][ handleResume
          => /\ UNCHANGED <<chapters, selectedChapterIdx, chapterWords, currentWordIdx>>
             /\ IsJson(storage')
             /\ Parse(storage').selectedChapterIdx = Parse(storage).selectedChapterIdx
             /\ Parse(storage').currentWordIdx = Parse(storage).currentWordIdx
      ]_vars

\* The first maximal run of non-whitespace characters of a text that starts
\* with one.
RECURSIVE Run(_)
Run(s) ==
    IF s = <<>> \/ IsSpace(Head(s)) THEN <<>> ELSE <<Head(s)>> \o Run(Tail(s))

\* tokenize: the maximal runs of non-whitespace characters, in order.
RECURSIVE Runs(_)
Runs(s) ==
    LET t == TrimLeft(s) IN
    IF t = <<>> THEN <<>>
    ELSE <<Run(t)>> \o Runs(SubSeq(t, Len(Run(t)) + 1, Len(t)))

\* C18: whenever a chapter is active, the token sequence in use is
\* tokenize(text of the active chapter); and selectChapter(i) makes chapter i
\* active with its token sequence, wordIndex 0, not playing and no tick
\* source.
C18_TokensOfActiveChapter ==
    /\ [](ChapterActive
            => /\ selectedChapterIdx + 1 \in DOMAIN chapters
               /\ chapterWords = Runs(chapters[selectedChapterIdx + 1].text))
    /\ [][ \A idx \in 0..(Len(chapters) - 1) :
             handleSelectChapter(idx)
                 => /\ selectedChapterIdx' = idx
                    /\ chapterWords' = Runs(chapters[idx + 1].text)
                    /\ currentWordIdx' = 0
                    /\ ~isPlaying' /\ intervalId' = NoTimer /\ intervals' = {}
         ]_vars

\* On a first visit BookA has been imported and its third chapter selected
\* in the sidebar.
C18_Witness ==
    /\ resumeState = NoSession
    /\ fileName = BookA.name
    /\ selectedChapterIdx = 2
    /\ chapterWords = Runs(chapters[3].text)
    /\ currentWordIdx = 0 /\ ~isPlaying /\ intervals = {}
    /\ storage = Stringify(SessionOf(BookA.name, 2, 0, TRUE))

\* The document a section is extracted from: the rendered one, or the plain
\* one when rendering fails.
SectionDocument(sec) == IF sec.renderOk THEN sec.rendered ELSE sec.text

\* The extraction of a section succeeds and its normalised text has a
\* character that is not whitespace.
HasText(sec) ==
    /\ sec.loadOk /\ (sec.renderOk \/ sec.textOk)
    /\ \E i \in DOMAIN extractCleanTextFromHTML(SectionDocument(sec)) :
           ~IsSpace(extractCleanTextFromHTML(SectionDocument(sec))[i])

\* The spine positions, from 1, of the sections that have text.
Kept(sections) == {i \in DOMAIN sections : HasText(sections[i])}

\* C19: the chapter list of an EPUB whose container opens holds, in spine
\* order, one chapter for each section that has text and none for the
\* others, each with the normalised text of its section and with its 0-based
\* spine position as index.
C19_ChaptersAreSectionsWithText ==
    [][ \A k \in DOMAIN loads :
          EpubExtracted(k)
              => LET sections == loads[k].file.sections IN
                 /\ Len(chapters') = Cardinality(Kept(sections))
                 /\ \A j \in DOMAIN chapters' :
                        /\ chapters'[j].index + 1 \in Kept(sections)
                        /\ chapters'[j].text = extractCleanTextFromHTML(
                               SectionDocument(sections[chapters'[j].index + 1]))
                        /\ j > 1 => chapters'[j - 1].index < chapters'[j].index
      ]_vars

\* BookA is loaded: of its five sections the first, the third (by its plain
\* text) and the fifth are chapters, with their spine positions.
C19_Witness ==
    /\ fileName = BookA.name
    /\ Len(chapters) = 3
    /\ chapters[1].index = 0 /\ chapters[2].index = 2 /\ chapters[3].index = 4
    /\ loads = <<>>

\* C20: the end of an EPUB load none of whose sections has text reports that
\* no chapters were found and leaves an empty chapter list, no active chapter
\* and an empty token sequence; the end of a load with a section that has
\* text reports no error, whatever sections were skipped.
C20_NoChaptersFound ==
    [][ \A k \in DOMAIN loads :
          EpubExtracted(k)
              => IF Kept(loads[k].file.sections) = {}
                 THEN /\ error' = ErrEpubNoChapters
                      /\ chapters' = <<>>
                      /\ selectedChapterIdx' = NoIndex
                      /\ chapterWords' = <<>>
                      /\ ~loading'
                 ELSE /\ error' = error
                      /\ chapters' # <<>>
      ]_vars

\* BookE has been loaded and nothing was found in it.
C20_Witness ==
    /\ fileName = BookE.name
    /\ error = ErrEpubNoChapters
    /\ chapters = <<>> /\ selectedChapterIdx = NoIndex /\ chapterWords = <<>>
    /\ loads = <<>> /\ ~loading

\* C21: when the spine loop of an EPUB load reaches a section, and when it
\* ends, no section loaded before is still held: each has been released.
C21_SectionsReleased ==
    [][ \A k \in DOMAIN loads :
          EpubExtracted(k)
              => \A i \in 0..Len(loads[k].file.sections) :
                     Held(loads[k].file.sections, i) = {}
      ]_vars

\* The messages of the failure kinds.
Messages ==
    { ErrTxtRead, ErrEpubTimeout, ErrEpubExtract, ErrEpubNoChapters, ErrEpubParse,
      ErrPdfParse, ErrPdfRead, ErrUnsupported }

\* C22: whenever no load is in progress the loading flag is false; the error
\* slot holds nothing or one message; and each failure or timeout of a load
\* puts its own message there in place of what was there.
C22_LoadingCleared ==
    /\ [](loads = <<>> => ~loading)
    /\ [](error \in Messages \cup {""})
    /\ [][ \A k \in DOMAIN loads :
             /\ TxtReadError(k) => error' = ErrTxtRead
             /\ (\A msg \in {ErrPdfParse, ErrPdfRead} : PdfFailed(k, msg) => error' = msg)
             /\ EpubOpenFailed(k) => error' = ErrEpubParse
             /\ EpubExtractFailed(k) => error' = ErrEpubExtract
             /\ EpubTimeout(k) => (error' = ErrEpubTimeout /\ ~loading')
             /\ (EpubExtracted(k) /\ chapters' = <<>>) => error' = ErrEpubNoChapters
         ]_vars

\* The extraction of BookA has failed and its load is over: the message
\* of the failure is shown and the loading flag is false.
C22_Witness ==
    /\ fileName = BookA.name
    /\ error = ErrEpubExtract
    /\ loads = <<>> /\ ~loading
    /\ chapters = <<>>

\* C23: every live tick source tests the end of the chapter against the
\* length of the token sequence in use.
C23_TicksUseActiveLength ==
    \A t \in intervals : t.len = Len(chapterWords)

\* C24: once the loads of all chosen files are over and none has failed, the
\* chapter list is that of the file named by fileName, the file chosen
\* last, and the token sequence is that of its active chapter.
C24_LastChosenFileWins ==
    (nImports > 0 /\ loads = <<>> /\ error = "")
        => \E file \in Files :
               /\ file.name = fileName
               /\ chapters = SpineLoop(file.sections, 0)
               /\ ChapterActive =>
                      chapterWords = Runs(chapters[selectedChapterIdx + 1].text)

\* C25: an import that is refused for its extension leaves the storage slot
\* unchanged, and a load that ends in a read error or on a container that
\* does not open leaves a slot that does not name the file of that load.
C25_FailedImportKeepsSlot ==
    [][ /\ \A file \in Files :
             (Extension(file.name) \notin Supported /\ handleFileChange(file))
                 => storage' = storage
        /\ \A k \in DOMAIN loads :
             ( \/ TxtReadError(k)
               \/ \E msg \in {ErrPdfParse, ErrPdfRead} : PdfFailed(k, msg)
               \/ EpubOpenFailed(k) )
                 => (IsJson(storage') => Parse(storage').fileName # loads[k].file.name)
      ]_vars

====
